---------------------------- MODULE Spec2Model ----------------------------
(***************************************************************************)
(* Model of the DMC inventory programs of src/api/index.py: the FastAPI    *)
(* service (lines 1-225) and the Streamlit application DMCInventoryApp     *)
(* (lines 230-917).  Each program owns a relational store with the tables  *)
(* it_inventory and inventory_tracker.  Text is modelled as a sequence of  *)
(* one-character strings so that LIKE, lower() and equality are computed   *)
(* character by character.                                                 *)
(***************************************************************************)
EXTENDS Integers, Sequences, FiniteSets, TLC

(***************************************************************************)
(* Bounds of the model.                                                    *)
(***************************************************************************)
\* rows the it_inventory table may hold
MaxAssets == 2
\* rows the inventory_tracker table may hold
MaxRecords == 2
\* greatest primary key the store hands out
MaxId == 2
\* greatest length of a stored text probed by the LIKE specification
MaxTextLen == 3
\* greatest length of a search term probed by the LIKE specification
MaxTermLen == 2

(***************************************************************************)
(* Text values.  NULL is SQL NULL / Python None; Empty is the string "".   *)
(***************************************************************************)
NULL == <<"NULL">>
Empty == <<>>
A1 == <<"A", "1">>
B2 == <<"B", "2">>
S1 == <<"S", "1">>
S2 == <<"S", "2">>
Emp == <<"E", "v", "e">>
Z9 == <<"Z", "9">>
z9 == <<"z", "9">>
Today == <<"2", "0", "2", "5", "-", "0", "1", "-", "0", "1">>
All == <<"A", "l", "l">>
all == <<"a", "l", "l">>
Allocated == <<"A", "l", "l", "o", "c", "a", "t", "e", "d">>
allocated == <<"a", "l", "l", "o", "c", "a", "t", "e", "d">>
Available == <<"A", "v", "a", "i", "l", "a", "b", "l", "e">>
Returned == <<"R", "e", "t", "u", "r", "n", "e", "d">>
Indore == <<"I", "n", "d", "o", "r", "e">>
\* search terms typed in lower case
SerialTerm == <<"s">>
NameTerm == <<"e", "v">>

\* a test for None only: "" passes
Truthy_NotNone(s) == s # NULL

\* Python truthiness of an Optional[str]: None and "" are falsy.
Truthy(s) == s # NULL /\ s # Empty

UpperLetters ==
    <<"A", "B", "C", "D", "E", "F", "G", "H", "I", "J", "K", "L", "M",
      "N", "O", "P", "Q", "R", "S", "T", "U", "V", "W", "X", "Y", "Z">>
LowerLetters ==
    <<"a", "b", "c", "d", "e", "f", "g", "h", "i", "j", "k", "l", "m",
      "n", "o", "p", "q", "r", "s", "t", "u", "v", "w", "x", "y", "z">>

\* lower case of one character (ASCII letters; others are left alone)
ToLower(c) ==
    IF \E i \in 1..Len(UpperLetters) : UpperLetters[i] = c
    THEN LowerLetters[CHOOSE i \in 1..Len(UpperLetters) : UpperLetters[i] = c]
    ELSE c

\* str.lower()
Lower(s) == [i \in 1..Len(s) |-> ToLower(s[i])]

(***************************************************************************)
(* The LIKE operator of the store (SQLite, the default DATABASE_URL and    *)
(* the only store of the Streamlit program): % matches any run of          *)
(* characters, _ matches one character, every other character matches      *)
(* itself with ASCII letters compared regardless of case.                  *)
(***************************************************************************)
\* a comparison that tells upper case from lower case
CharEq_CaseSensitive(p, c) == p = c

\* comparison of one pattern character with one text character
CharEq(p, c) == ToLower(p) = ToLower(c)

RECURSIVE Like(_, _)
Like(pat, str) ==
    IF pat = <<>> THEN str = <<>>
    ELSE IF Head(pat) = "%"
         THEN \/ Like(Tail(pat), str)
              \/ (str # <<>> /\ Like(pat, Tail(str)))
    ELSE IF str = <<>> THEN FALSE
    ELSE IF Head(pat) = "_" THEN Like(Tail(pat), Tail(str))
    ELSE CharEq(Head(pat), Head(str)) /\ Like(Tail(pat), Tail(str))

\* wildcard = f"%{q}%"
Wildcard(q) == <<"%">> \o q \o <<"%">>

\* column LIKE wildcard, as a WHERE term: NULL LIKE x is NULL, which selects nothing
ColumnLike(v, q) == v # NULL /\ Like(Wildcard(q), v)

\* an equality that ignores letter case
ColumnEq_NoCase(v, x) == v # NULL /\ Lower(v) = Lower(x)

\* column = value, as a WHERE term: binary comparison, NULL = x is NULL
ColumnEq(v, x) == v # NULL /\ v = x

(***************************************************************************)
(* Schema.                                                                 *)
(***************************************************************************)
ITColumns ==
    {"assets_id", "system_type", "location", "brand", "model", "serial_number",
     "status", "windows", "config", "warranty_status", "last_audit_date",
     "remarks"}

TrackerColumns ==
    {"employee_name", "assets_id", "system_type", "location", "brand", "model",
     "serial_number", "status", "windows", "config", "warranty_status",
     "date_of_allocation", "date_of_return", "last_audit_date", "phone_number",
     "extra_allocated_item"}

\* columns the search of it_inventory looks at
ITSearchColumns ==
    {"assets_id", "system_type", "location", "brand", "model", "serial_number",
     "status"}

\* an INSERT into a table whose status column has DEFAULT 'Available'
Row_DefaultStatus(item, n) ==
    [f \in (DOMAIN item) \cup {"id"} |->
        IF f = "id" THEN n
        ELSE IF f = "status" /\ item[f] = NULL THEN Available
        ELSE item[f]]

\* the row an INSERT of the values `item` stores under primary key n
Row(item, n) ==
    [f \in (DOMAIN item) \cup {"id"} |-> IF f = "id" THEN n ELSE item[f]]

\* the primary keys of a table
Ids(table) == {table[i].id : i \in 1..Len(table)}

MaxOf(S) == IF S = {} THEN 0 ELSE CHOOSE m \in S : \A x \in S : x <= m

\* SELECT ... FROM table with no ORDER BY and no usable index: a scan of the
\* table b-tree, which visits the rows by ascending rowid
ByRowId(table) == SortSeq(table, LAMBDA a, b : a.id < b.id)

\* a store whose only UNIQUE column is serial_number
UniqueViolation_SerialOnly(table, item) ==
    \E i \in 1..Len(table) :
        item.serial_number # NULL /\ table[i].serial_number = item.serial_number

\* UNIQUE(assets_id), UNIQUE(serial_number): NULLs never collide
UniqueViolation(table, item) ==
    \E i \in 1..Len(table) :
        \/ (item.assets_id # NULL /\ table[i].assets_id = item.assets_id)
        \/ (item.serial_number # NULL
                /\ table[i].serial_number = item.serial_number)

\* query.first() with the filter on id forgotten
FirstById_NoFilter(table, n) == IF Len(table) > 0 THEN 1 ELSE 0

\* query.filter(id == n).first(): the position of the row found, 0 for None
FirstById(table, n) ==
    IF \E i \in 1..Len(table) : table[i].id = n
    THEN CHOOSE i \in 1..Len(table) :
            table[i].id = n /\ \A j \in 1..(i - 1) : table[j].id # n
    ELSE 0

\* a DELETE whose WHERE clause is lost
Without_All(table, i) == <<>>

\* a delete that marks the row instead of removing it
Without_SoftDelete(table, i) ==
    [table EXCEPT ![i] = [@ EXCEPT !.status = <<"D", "e", "l", "e", "t", "e", "d">>]]

\* db.delete(item); db.commit(): DELETE of the row with item's primary key
Without(table, i) == SelectSeq(table, LAMBDA r : r.id # table[i].id)


(***************************************************************************)
(* State.                                                                  *)
(***************************************************************************)
VARIABLES
    app,               \* which program runs: "api" (FastAPI) or "ui" (Streamlit)
    it_inventory,      \* table it_inventory: rows in rowid order
    inventory_tracker, \* table inventory_tracker: rows in rowid order
    sqlite_sequence,   \* AUTOINCREMENT high-water marks of the ui schema
    resp,              \* the last request and what the program answered
    session,           \* per client: an API create of SpecConc in progress
    probe              \* SpecLike: the column text and term under test

vars ==
    <<app, it_inventory, inventory_tracker, sqlite_sequence, resp, session, probe>>

Clients == {"c1", "c2"}

\* a store that gives an INSERT the least rowid the table does not hold
NextRowId_FirstFree(table, seq) ==
    CHOOSE n \in 1..(Len(table) + 1) :
        /\ n \notin Ids(table)
        /\ \A m \in 1..(n - 1) : m \in Ids(table)

\* the primary key an INSERT into `table` gets.  The API declares
\* id = Column(Integer, primary_key=True): a plain rowid, max(rowid)+1.
\* The Streamlit schema declares INTEGER PRIMARY KEY AUTOINCREMENT: one more
\* than the greatest rowid the table ever held.
NextRowId(table, seq) ==
    IF app = "api" THEN MaxOf(Ids(table)) + 1
    ELSE MaxOf(Ids(table) \cup {seq}) + 1

Response(op, args, outcome, code, body) ==
    [op |-> op, args |-> args, outcome |-> outcome, code |-> code, body |-> body]

(***************************************************************************)
(* Request bodies.  opt is <<column, value>>: one optional column supplied *)
(* besides the required ones (<<"-", NULL>>: none).                        *)
(***************************************************************************)
\* ITInventoryCreate: every Optional field defaults to None
ITInventoryCreate(aid, sn, st, opt) ==
    [f \in ITColumns |->
        CASE f = "assets_id" -> aid
          [] f = "serial_number" -> sn
          [] f = "status" -> st
          [] f = opt[1] -> opt[2]
          [] OTHER -> NULL]

\* TrackerCreate: every Optional field defaults to None
TrackerCreate(emp, aid, st, opt) ==
    [f \in TrackerColumns |->
        CASE f = "employee_name" -> emp
          [] f = "assets_id" -> aid
          [] f = "status" -> st
          [] f = opt[1] -> opt[2]
          [] OTHER -> NULL]

(***************************************************************************)
(* FastAPI service, /api/it_inventory.                                     *)
(***************************************************************************)
\* the search also looking at the remarks column
ITInventoryFilter_Remarks(r, q, status) ==
    /\ Truthy(q) =>
          \/ \E f \in ITSearchColumns : ColumnLike(r[f], q)
          \/ ColumnLike(r.remarks, q)
    /\ (Truthy(status) /\ Lower(status) # all) => ColumnEq(r.status, status)

\* the status filter applied whenever a status is given, "All" included
ITInventoryFilter_NoAllCheck(r, q, status) ==
    /\ Truthy(q) => \E f \in ITSearchColumns : ColumnLike(r[f], q)
    /\ Truthy(status) => ColumnEq(r.status, status)

\* the two conditions joined by OR when both are given
ITInventoryFilter_Or(r, q, status) ==
    IF Truthy(q) /\ Truthy(status) /\ Lower(status) # all
    THEN \/ \E f \in ITSearchColumns : ColumnLike(r[f], q)
         \/ ColumnEq(r.status, status)
    ELSE /\ Truthy(q) => \E f \in ITSearchColumns : ColumnLike(r[f], q)
         /\ (Truthy(status) /\ Lower(status) # all) => ColumnEq(r.status, status)

\* the WHERE clause of list_it_inventory
ITInventoryFilter(r, q, status) ==
    /\ Truthy(q) =>
          \/ ColumnLike(r.assets_id, q)
          \/ ColumnLike(r.system_type, q)
          \/ ColumnLike(r.location, q)
          \/ ColumnLike(r.brand, q)
          \/ ColumnLike(r.model, q)
          \/ ColumnLike(r.serial_number, q)
          \/ ColumnLike(r.status, q)
    /\ (Truthy(status) /\ Lower(status) # all) => ColumnEq(r.status, status)

\* query.all()
ITInventoryQuery(table, q, status) ==
    SelectSeq(ByRowId(table), LAMBDA r : ITInventoryFilter(r, q, status))

\* GET /api/it_inventory?q=&status=
list_it_inventory(q, status) ==
    /\ app = "api"
    /\ resp' = Response("list_it_inventory", <<q, status>>, "ok", 200,
                        ITInventoryQuery(it_inventory, q, status))
    /\ UNCHANGED <<app, it_inventory, inventory_tracker, sqlite_sequence,
                   session, probe>>

\* POST /api/it_inventory
create_it_inventory(payload) ==
    /\ app = "api"
    /\ LET id == NextRowId(it_inventory, sqlite_sequence.it_inventory) IN
       IF payload.assets_id = NULL
       THEN \* assets_id: str, rejected by the request model
            /\ resp' = Response("create_it_inventory", payload,
                                "ValidationError", 422, <<>>)
            /\ UNCHANGED it_inventory
       ELSE IF ~Truthy(payload.assets_id)
       THEN /\ resp' = Response("create_it_inventory", payload,
                                "ValidationError", 400, <<>>)
            /\ UNCHANGED it_inventory
       ELSE IF UniqueViolation(it_inventory, payload)
       THEN \* IntegrityError from db.commit() is not caught
            /\ resp' = Response("create_it_inventory", payload,
                                "IntegrityError", 500, <<>>)
            /\ UNCHANGED it_inventory
       ELSE /\ Len(it_inventory) < MaxAssets
            /\ id <= MaxId
            /\ it_inventory' = Append(it_inventory, Row(payload, id))
            /\ resp' = Response("create_it_inventory", payload, "ok", 201,
                                Row(payload, id))
    /\ UNCHANGED <<app, inventory_tracker, sqlite_sequence, session, probe>>

\* DELETE /api/it_inventory/{item_id}
delete_it_inventory(item_id) ==
    /\ app = "api"
    /\ LET item == FirstById(it_inventory, item_id) IN
       IF item = 0
       THEN /\ resp' = Response("delete_it_inventory", item_id, "NotFound",
                                404, <<>>)
            /\ UNCHANGED it_inventory
       ELSE /\ it_inventory' = Without(it_inventory, item)
            /\ resp' = Response("delete_it_inventory", item_id, "ok", 204, <<>>)
    /\ UNCHANGED <<app, inventory_tracker, sqlite_sequence, session, probe>>

(***************************************************************************)
(* FastAPI service, /api/inventory_tracker.                                *)
(***************************************************************************)
\* the WHERE clause of list_inventory_tracker
TrackerFilter(r, q, status) ==
    /\ Truthy(q) =>
          \/ ColumnLike(r.employee_name, q)
          \/ ColumnLike(r.assets_id, q)
          \/ ColumnLike(r.system_type, q)
          \/ ColumnLike(r.location, q)
          \/ ColumnLike(r.brand, q)
          \/ ColumnLike(r.model, q)
          \/ ColumnLike(r.serial_number, q)
          \/ ColumnLike(r.status, q)
    /\ (Truthy(status) /\ Lower(status) # all) => ColumnEq(r.status, status)

\* query.all()
TrackerQuery(table, q, status) ==
    SelectSeq(ByRowId(table), LAMBDA r : TrackerFilter(r, q, status))

\* GET /api/inventory_tracker?q=&status=
list_inventory_tracker(q, status) ==
    /\ app = "api"
    /\ resp' = Response("list_inventory_tracker", <<q, status>>, "ok", 200,
                        TrackerQuery(inventory_tracker, q, status))
    /\ UNCHANGED <<app, it_inventory, inventory_tracker, sqlite_sequence,
                   session, probe>>

\* POST /api/inventory_tracker on a table with UNIQUE(assets_id)
create_inventory_record_UniqueAsset(payload) ==
    /\ app = "api"
    /\ LET id == NextRowId(inventory_tracker, sqlite_sequence.inventory_tracker) IN
       IF payload.employee_name = NULL \/ payload.assets_id = NULL
       THEN /\ resp' = Response("create_inventory_record", payload,
                                "ValidationError", 422, <<>>)
            /\ UNCHANGED inventory_tracker
       ELSE IF ~Truthy(payload.employee_name) \/ ~Truthy(payload.assets_id)
       THEN /\ resp' = Response("create_inventory_record", payload,
                                "ValidationError", 400, <<>>)
            /\ UNCHANGED inventory_tracker
       ELSE IF \E i \in 1..Len(inventory_tracker) :
                  inventory_tracker[i].assets_id = payload.assets_id
       THEN /\ resp' = Response("create_inventory_record", payload,
                                "IntegrityError", 500, <<>>)
            /\ UNCHANGED inventory_tracker
       ELSE /\ Len(inventory_tracker) < MaxRecords
            /\ id <= MaxId
            /\ inventory_tracker' = Append(inventory_tracker, Row(payload, id))
            /\ resp' = Response("create_inventory_record", payload, "ok", 201,
                                Row(payload, id))
    /\ UNCHANGED <<app, it_inventory, sqlite_sequence, session, probe>>

\* POST /api/inventory_tracker
create_inventory_record(payload) ==
    /\ app = "api"
    /\ LET id == NextRowId(inventory_tracker, sqlite_sequence.inventory_tracker) IN
       IF payload.employee_name = NULL \/ payload.assets_id = NULL
       THEN \* employee_name: str, assets_id: str, rejected by the request model
            /\ resp' = Response("create_inventory_record", payload,
                                "ValidationError", 422, <<>>)
            /\ UNCHANGED inventory_tracker
       ELSE IF ~Truthy(payload.employee_name) \/ ~Truthy(payload.assets_id)
       THEN /\ resp' = Response("create_inventory_record", payload,
                                "ValidationError", 400, <<>>)
            /\ UNCHANGED inventory_tracker
       ELSE /\ Len(inventory_tracker) < MaxRecords
            /\ id <= MaxId
            /\ inventory_tracker' = Append(inventory_tracker, Row(payload, id))
            /\ resp' = Response("create_inventory_record", payload, "ok", 201,
                                Row(payload, id))
    /\ UNCHANGED <<app, it_inventory, sqlite_sequence, session, probe>>

\* DELETE /api/inventory_tracker/{record_id}
delete_inventory_record(record_id) ==
    /\ app = "api"
    /\ LET rec == FirstById(inventory_tracker, record_id) IN
       IF rec = 0
       THEN /\ resp' = Response("delete_inventory_record", record_id,
                                "NotFound", 404, <<>>)
            /\ UNCHANGED inventory_tracker
       ELSE /\ inventory_tracker' = Without(inventory_tracker, rec)
            /\ resp' = Response("delete_inventory_record", record_id, "ok", 204,
                                <<>>)
    /\ UNCHANGED <<app, it_inventory, sqlite_sequence, session, probe>>

(***************************************************************************)
(* Streamlit application DMCInventoryApp.  It has forms to add and tables  *)
(* to display; it has no delete.                                           *)
(***************************************************************************)
\* the item_data of the "Add Item" button: text inputs give "", date inputs a date
ITItemData(aid, sn, st, opt) ==
    [f \in ITColumns |->
        CASE f = "assets_id" -> aid
          [] f = "serial_number" -> sn
          [] f = "status" -> st
          [] f = opt[1] -> opt[2]
          [] f = "last_audit_date" -> Today
          [] OTHER -> Empty]

\* the record_data of the "Add Record" button
TrackerRecordData(emp, aid, st, opt) ==
    [f \in TrackerColumns |->
        CASE f = "employee_name" -> emp
          [] f = "assets_id" -> aid
          [] f = "status" -> st
          [] f = opt[1] -> opt[2]
          [] f \in {"date_of_allocation", "date_of_return", "last_audit_date"}
               -> Today
          [] OTHER -> Empty]

\* DMCInventoryApp.add_it_item
add_it_item(item_data) ==
    /\ app = "ui"
    /\ LET id == NextRowId(it_inventory, sqlite_sequence.it_inventory) IN
       IF ~Truthy(item_data.assets_id) \/ ~Truthy(item_data.serial_number)
       THEN \* st.error("Assets ID and Serial Number are required")
            /\ resp' = Response("add_it_item", item_data, "ValidationError", 0,
                                <<>>)
            /\ UNCHANGED <<it_inventory, sqlite_sequence>>
       ELSE IF UniqueViolation(it_inventory, item_data)
       THEN \* except sqlite3.IntegrityError
            /\ resp' = Response("add_it_item", item_data, "IntegrityError", 0,
                                <<>>)
            /\ UNCHANGED <<it_inventory, sqlite_sequence>>
       ELSE /\ Len(it_inventory) < MaxAssets
            /\ id <= MaxId
            /\ it_inventory' = Append(it_inventory, Row(item_data, id))
            /\ sqlite_sequence' = [sqlite_sequence EXCEPT !.it_inventory = id]
            /\ resp' = Response("add_it_item", item_data, "ok", 0, <<>>)
    /\ UNCHANGED <<app, inventory_tracker, session, probe>>

\* the WHERE clause display_it_inventory builds
ITDisplayFilter(r, search_term, status_filter) ==
    /\ Truthy(search_term) =>
          \/ ColumnLike(r.assets_id, search_term)
          \/ ColumnLike(r.system_type, search_term)
          \/ ColumnLike(r.location, search_term)
          \/ ColumnLike(r.brand, search_term)
          \/ ColumnLike(r.model, search_term)
          \/ ColumnLike(r.serial_number, search_term)
          \/ ColumnLike(r.status, search_term)
    /\ status_filter # All => ColumnEq(r.status, status_filter)

\* self.cursor.execute(query, params); rows = self.cursor.fetchall()
ITDisplayQuery(table, search_term, status_filter) ==
    SelectSeq(ByRowId(table),
              LAMBDA r : ITDisplayFilter(r, search_term, status_filter))

\* DMCInventoryApp.display_it_inventory: the rows the table shows
display_it_inventory(search_term, status_filter) ==
    /\ app = "ui"
    /\ resp' = Response("display_it_inventory", <<search_term, status_filter>>,
                        "ok", 0,
                        ITDisplayQuery(it_inventory, search_term, status_filter))
    /\ UNCHANGED <<app, it_inventory, inventory_tracker, sqlite_sequence,
                   session, probe>>

\* DMCInventoryApp.add_tracker_record
add_tracker_record(record_data) ==
    /\ app = "ui"
    /\ LET id == NextRowId(inventory_tracker, sqlite_sequence.inventory_tracker) IN
       IF ~Truthy(record_data.employee_name) \/ ~Truthy(record_data.assets_id)
       THEN \* st.error("Employee Name and Assets ID are required")
            /\ resp' = Response("add_tracker_record", record_data,
                                "ValidationError", 0, <<>>)
            /\ UNCHANGED <<inventory_tracker, sqlite_sequence>>
       ELSE /\ Len(inventory_tracker) < MaxRecords
            /\ id <= MaxId
            /\ inventory_tracker' = Append(inventory_tracker, Row(record_data, id))
            /\ sqlite_sequence' = [sqlite_sequence EXCEPT !.inventory_tracker = id]
            /\ resp' = Response("add_tracker_record", record_data, "ok", 0, <<>>)
    /\ UNCHANGED <<app, it_inventory, session, probe>>

\* the WHERE clause display_inventory_tracker builds
TrackerDisplayFilter(r, search_term, status_filter) ==
    /\ Truthy(search_term) =>
          \/ ColumnLike(r.employee_name, search_term)
          \/ ColumnLike(r.assets_id, search_term)
          \/ ColumnLike(r.system_type, search_term)
          \/ ColumnLike(r.location, search_term)
          \/ ColumnLike(r.brand, search_term)
          \/ ColumnLike(r.model, search_term)
          \/ ColumnLike(r.serial_number, search_term)
          \/ ColumnLike(r.status, search_term)
    /\ status_filter # All => ColumnEq(r.status, status_filter)

\* self.cursor.execute(query, params); rows = self.cursor.fetchall()
TrackerDisplayQuery(table, search_term, status_filter) ==
    SelectSeq(ByRowId(table),
              LAMBDA r : TrackerDisplayFilter(r, search_term, status_filter))

\* DMCInventoryApp.display_inventory_tracker: the rows the table shows
display_inventory_tracker(search_term, status_filter) ==
    /\ app = "ui"
    /\ resp' = Response("display_inventory_tracker",
                        <<search_term, status_filter>>, "ok", 0,
                        TrackerDisplayQuery(inventory_tracker, search_term,
                                            status_filter))
    /\ UNCHANGED <<app, it_inventory, inventory_tracker, sqlite_sequence,
                   session, probe>>

(***************************************************************************)
(* Record service: create, delete and unfiltered list of both programs.    *)
(***************************************************************************)
NoOpt == <<"-", NULL>>
(***************************************************************************)
(* Streamlit program: the dashboard and the reports (read only).           *)
(***************************************************************************)
\* a GROUP BY that leaves the rows without a value out
GroupCount_NoUnset(table, column) ==
    [v \in {table[i][column] : i \in 1..Len(table)} \ {NULL, Empty} |->
        Cardinality({i \in 1..Len(table) : table[i][column] = v})]

\* SELECT column, COUNT(*) FROM table GROUP BY column; fetchall(): one
\* (value, count) pair per group, NULL being a group of its own
GroupCount(table, column) ==
    [v \in {table[i][column] : i \in 1..Len(table)} |->
        Cardinality({i \in 1..Len(table) : table[i][column] = v})]

\* SELECT COUNT(*) FROM table WHERE column = 'x'
CountWhere(table, column, x) ==
    Cardinality({i \in 1..Len(table) : ColumnEq(table[i][column], x)})

\* SELECT COUNT(DISTINCT column) FROM table: NULL is not counted
CountDistinct(table, column) ==
    Cardinality({table[i][column] : i \in 1..Len(table)} \ {NULL})

\* DMCInventoryApp.build_dashboard_section: the four metrics and the data of
\* the two charts (the "Recent Allocations" table, which reads
\* inventory_tracker only, is not part of the response modelled here)
build_dashboard_section ==
    /\ app = "ui"
    /\ resp' = Response("build_dashboard_section", <<>>, "ok", 0,
          [total_assets |-> Len(it_inventory),
           available_assets |-> CountWhere(it_inventory, "status", Available),
           allocated_assets |-> CountWhere(inventory_tracker, "status", Allocated),
           total_employees |-> CountDistinct(inventory_tracker, "employee_name"),
           status_data |-> GroupCount(it_inventory, "status"),
           location_data |-> GroupCount(it_inventory, "location")])
    /\ UNCHANGED <<app, it_inventory, inventory_tracker, sqlite_sequence,
                   session, probe>>

\* the report types that read it_inventory or nothing
ReportTypes == {"Asset Summary Report", "Warranty Expiry Report"}

\* DMCInventoryApp.generate_report
generate_report(report_type) ==
    /\ app = "ui"
    /\ resp' = Response("generate_report", report_type, "ok", 0,
          IF report_type = "Asset Summary Report"
          THEN [status_data |-> GroupCount(it_inventory, "status")]
          ELSE <<>>)
    /\ UNCHANGED <<app, it_inventory, inventory_tracker, sqlite_sequence,
                   session, probe>>

IdleSession ==
    [c \in Clients |-> [pc |-> "idle", item |-> <<>>, code |-> 0, overlap |-> FALSE]]
NoProbe == [pc |-> "off", q |-> <<>>, v |-> <<>>, match |-> FALSE]

\* the state after startup: Base.metadata.create_all / init_db on a new store
Init ==
    /\ app \in {"api", "ui"}
    /\ it_inventory = <<>>
    /\ inventory_tracker = <<>>
    /\ sqlite_sequence = [it_inventory |-> 0, inventory_tracker |-> 0]
    /\ resp = Response("startup", <<>>, "ok", 0, <<>>)
    /\ session = IdleSession
    /\ probe = NoProbe

\* request bodies POSTed to /api/it_inventory
ApiAssetInputs ==
    {ITInventoryCreate(aid, sn, NULL, NoOpt) :
        aid \in {NULL, Empty, A1, B2}, sn \in {NULL, Empty, S1, S2}}
    \cup {ITInventoryCreate(B2, S2, Available, <<"remarks", Z9>>)}

\* request bodies POSTed to /api/inventory_tracker
ApiTrackerInputs ==
    {TrackerCreate(emp, aid, NULL, NoOpt) :
        emp \in {NULL, Empty, Emp}, aid \in {NULL, Empty, A1}}
    \cup {TrackerCreate(Emp, A1, Allocated, <<"serial_number", S1>>)}

\* forms submitted with "Add Item"
UiAssetInputs ==
    {ITItemData(aid, sn, Empty, NoOpt) :
        aid \in {Empty, A1, B2}, sn \in {Empty, S1, S2}}
    \cup {ITItemData(B2, S2, Available, <<"remarks", Z9>>)}

\* forms submitted with "Add Record"
UiTrackerInputs ==
    {TrackerRecordData(emp, aid, Empty, NoOpt) :
        emp \in {Empty, Emp}, aid \in {Empty, A1}}
    \cup {TrackerRecordData(Emp, A1, Allocated, <<"serial_number", S1>>)}

\* <<q, status>> of GET /api/it_inventory and GET /api/inventory_tracker
ApiAssetFilters == {<<NULL, NULL>>, <<SerialTerm, NULL>>, <<NULL, Available>>}
ApiTrackerFilters == {<<NULL, NULL>>, <<NameTerm, NULL>>, <<NULL, Allocated>>}

\* <<search box, status box>> of the two tabs
UiAssetFilters == {<<Empty, All>>, <<SerialTerm, All>>, <<Empty, Available>>}
UiTrackerFilters == {<<Empty, All>>, <<NameTerm, All>>, <<Empty, Allocated>>}

Next ==
    \/ \E payload \in ApiAssetInputs : create_it_inventory(payload)
    \/ \E item_id \in 1..(MaxId + 1) : delete_it_inventory(item_id)
    \/ \E f \in ApiAssetFilters : list_it_inventory(f[1], f[2])
    \/ \E payload \in ApiTrackerInputs : create_inventory_record(payload)
    \/ \E record_id \in 1..(MaxId + 1) : delete_inventory_record(record_id)
    \/ \E f \in ApiTrackerFilters : list_inventory_tracker(f[1], f[2])
    \/ \E item_data \in UiAssetInputs : add_it_item(item_data)
    \/ \E f \in UiAssetFilters : display_it_inventory(f[1], f[2])
    \/ \E record_data \in UiTrackerInputs : add_tracker_record(record_data)
    \/ \E f \in UiTrackerFilters : display_inventory_tracker(f[1], f[2])
    \/ build_dashboard_section
    \/ \E report_type \in ReportTypes : generate_report(report_type)

Spec == Init /\ [][Next]_vars

(***************************************************************************)
(* Concurrent POST /api/it_inventory.  FastAPI runs a def endpoint in a    *)
(* worker thread, so two requests interleave; each has its own Session.    *)
(* db.add() only marks the object pending in that Session; db.commit()     *)
(* sends the INSERT and the COMMIT, which the store applies as one step    *)
(* under its write lock, checking the UNIQUE constraints.                  *)
(***************************************************************************)
\* lines 146-152: the check of assets_id, ITInventory(**payload), db.add(item)
create_it_inventory_add(c, payload) ==
    /\ app = "api"
    /\ session[c].pc = "idle"
    /\ session' =
          [session EXCEPT ![c] =
              IF payload.assets_id = NULL
              THEN [pc |-> "done", item |-> payload, code |-> 422,
                    overlap |-> FALSE]
              ELSE IF ~Truthy(payload.assets_id)
              THEN [pc |-> "done", item |-> payload, code |-> 400,
                    overlap |-> FALSE]
              ELSE [pc |-> "added", item |-> payload, code |-> 0,
                    overlap |-> \E d \in Clients \ {c} : session[d].pc = "added"]]
    /\ UNCHANGED <<app, it_inventory, inventory_tracker, sqlite_sequence, resp,
                   probe>>

\* db.commit() with the UNIQUE constraints not enforced by the store
create_it_inventory_commit_unchecked(c) ==
    /\ app = "api"
    /\ session[c].pc = "added"
    /\ it_inventory' =
          Append(it_inventory,
                 Row(session[c].item,
                     NextRowId(it_inventory, sqlite_sequence.it_inventory)))
    /\ session' = [session EXCEPT ![c].pc = "done", ![c].code = 201]
    /\ UNCHANGED <<app, inventory_tracker, sqlite_sequence, resp, probe>>

\* lines 153-157: db.commit(), db.refresh(item), return item
create_it_inventory_commit(c) ==
    /\ app = "api"
    /\ session[c].pc = "added"
    /\ IF UniqueViolation(it_inventory, session[c].item)
       THEN \* IntegrityError: the Session is closed, nothing is written
            /\ session' = [session EXCEPT ![c].pc = "done", ![c].code = 500]
            /\ UNCHANGED it_inventory
       ELSE /\ it_inventory' =
                  Append(it_inventory,
                         Row(session[c].item,
                             NextRowId(it_inventory, sqlite_sequence.it_inventory)))
            /\ session' = [session EXCEPT ![c].pc = "done", ![c].code = 201]
    /\ UNCHANGED <<app, inventory_tracker, sqlite_sequence, resp, probe>>

\* request bodies of the concurrent clients
ConcAssetInputs ==
    {ITInventoryCreate(aid, sn, NULL, NoOpt) :
        aid \in {NULL, Empty, A1, B2}, sn \in {NULL, S1, S2}}

InitConc ==
    /\ app = "api"
    /\ it_inventory = <<>>
    /\ inventory_tracker = <<>>
    /\ sqlite_sequence = [it_inventory |-> 0, inventory_tracker |-> 0]
    /\ resp = Response("startup", <<>>, "ok", 0, <<>>)
    /\ session = IdleSession
    /\ probe = NoProbe

NextConc ==
    \/ \E c \in Clients, payload \in ConcAssetInputs :
          create_it_inventory_add(c, payload)
    \/ \E c \in Clients : create_it_inventory_commit(c)

SpecConc == InitConc /\ [][NextConc]_vars

(***************************************************************************)
(* The search term against one column: the WHERE term `column LIKE ?` with *)
(* the parameter f"%{term}%", for every short term and text over a small   *)
(* alphabet with two cases of a letter and both LIKE metacharacters.       *)
(***************************************************************************)
LikeAlphabet == {"a", "A", "b", "%", "_"}

\* the texts over LikeAlphabet of length lo..hi
TextsOf(lo, hi) == UNION {[1..k -> LikeAlphabet] : k \in lo..hi}

\* evaluate `column LIKE ?` for the probe's column value and term
column_like ==
    /\ probe.pc = "ready"
    /\ probe' = [probe EXCEPT !.pc = "done", !.match = ColumnLike(probe.v, probe.q)]
    /\ UNCHANGED <<app, it_inventory, inventory_tracker, sqlite_sequence, resp,
                   session>>

InitLike ==
    /\ app \in {"api", "ui"}
    /\ it_inventory = <<>>
    /\ inventory_tracker = <<>>
    /\ sqlite_sequence = [it_inventory |-> 0, inventory_tracker |-> 0]
    /\ resp = Response("startup", <<>>, "ok", 0, <<>>)
    /\ session = IdleSession
    /\ probe \in [pc : {"ready"}, q : TextsOf(1, MaxTermLen),
                  v : TextsOf(0, MaxTextLen) \cup {NULL}, match : {FALSE}]

NextLike == column_like

SpecLike == InitLike /\ [][NextLike]_vars

(***************************************************************************)
(* Query layer: the list endpoints and the display tables over a store     *)
(* that earlier creates have filled.  Row i was inserted i-th: it has      *)
(* primary key i and the i-th assets_id and serial_number.                 *)
(***************************************************************************)
Key3 == <<"C", "3">>
Key4 == <<"D", "4">>
S3 == <<"S", "3">>
S4 == <<"S", "4">>
a1 == <<"a", "1">>
AssetKeys == <<A1, B2, Key3, Key4>>
SerialKeys == <<S1, S2, S3, S4>>

\* the columns a request may fill with any text: every Optional[str] of the
\* API; the text inputs and text areas of the forms (their select boxes and
\* date inputs give no free text)
FreeColumns(program, columns) ==
    IF program = "api"
    THEN columns \ {"employee_name", "assets_id", "serial_number", "status"}
    ELSE columns \cap {"system_type", "brand", "model", "windows", "config",
                       "remarks", "phone_number", "extra_allocated_item"}

\* what a stored row carries besides its keys: <<status, opt>>; the unset
\* status is None for the API and "" for a form
RowShapes(program, columns, statuses) ==
    LET unset == IF program = "api" THEN NULL ELSE Empty IN
    {<<st, NoOpt>> : st \in {unset} \cup statuses}
    \cup {<<unset, <<f, Z9>>>> : f \in FreeColumns(program, columns)}
    \cup {<<Allocated, <<"brand", Z9>>>>}

\* the shapes of a stored asset: those above, and a location with or
\* without a status
AssetShapes(program) ==
    RowShapes(program, ITColumns, {Allocated, Available})
    \cup {<<st, <<"location", Indore>>>> :
             st \in {IF program = "api" THEN NULL ELSE Empty, Available}}

\* the it_inventory tables of n rows a program can have stored
AssetTables(program, n) ==
    {[i \in 1..n |->
        Row(IF program = "api"
            THEN ITInventoryCreate(AssetKeys[i], SerialKeys[i], sh[i][1], sh[i][2])
            ELSE ITItemData(AssetKeys[i], SerialKeys[i], sh[i][1], sh[i][2]), i)] :
     sh \in [1..n -> AssetShapes(program)]}

\* the inventory_tracker tables of n rows a program can have stored
TrackerTables(program, n) ==
    {[i \in 1..n |->
        Row(IF program = "api"
            THEN TrackerCreate(Emp, A1, sh[i][1], sh[i][2])
            ELSE TrackerRecordData(Emp, A1, sh[i][1], sh[i][2]), i)] :
     sh \in [1..n -> RowShapes(program, TrackerColumns, {Allocated, Returned})]}

InitQuery ==
    /\ app \in {"api", "ui"}
    /\ \/ /\ it_inventory \in UNION {AssetTables(app, n) : n \in 1..MaxAssets}
          /\ inventory_tracker = <<>>
       \/ /\ it_inventory = <<>>
          /\ inventory_tracker \in UNION {TrackerTables(app, n) : n \in 0..MaxRecords}
    /\ sqlite_sequence =
          IF app = "api" THEN [it_inventory |-> 0, inventory_tracker |-> 0]
          ELSE [it_inventory |-> Len(it_inventory),
                inventory_tracker |-> Len(inventory_tracker)]
    /\ resp = Response("startup", <<>>, "ok", 0, <<>>)
    /\ session = IdleSession
    /\ probe = NoProbe

\* the q and status parameters of the GET endpoints
ApiTerms == {NULL, Empty, z9, a1}
ApiStatusFilters == {NULL, Empty, All, all, Allocated, allocated}

\* the search box and the status filter of the display tables
UiTerms == {Empty, z9, a1}
UiStatusFilters == {Empty, All, all, Allocated, allocated}

\* one query is asked of each stored table: a query changes no table, so a
\* second one would start from the same store
NextQuery ==
    \/ /\ resp.op = "startup"
       /\ \E q \in ApiTerms, status \in ApiStatusFilters :
             list_it_inventory(q, status)
    \/ /\ resp.op = "startup"
       /\ \E q \in ApiTerms, status \in ApiStatusFilters :
             list_inventory_tracker(q, status)
    \/ /\ resp.op = "startup"
       /\ \E search_term \in UiTerms, status_filter \in UiStatusFilters :
             display_it_inventory(search_term, status_filter)
    \/ /\ resp.op = "startup"
       /\ \E search_term \in UiTerms, status_filter \in UiStatusFilters :
             display_inventory_tracker(search_term, status_filter)
    \/ /\ resp.op = "startup"
       /\ build_dashboard_section
    \/ /\ resp.op = "startup"
       /\ \E report_type \in ReportTypes : generate_report(report_type)

SpecQuery == InitQuery /\ [][NextQuery]_vars

(***************************************************************************)
(* Properties of the record service.                                       *)
(***************************************************************************)
CreateAssetOps == {"create_it_inventory", "add_it_item"}
DeleteOps == {"delete_it_inventory", "delete_inventory_record"}

\* the rows of a table that carry the given assets_id
WithAssetsId(table, aid) == {i \in 1..Len(table) : table[i].assets_id = aid}

\* the rows of a table that carry the given serial_number
WithSerial(table, sn) == {i \in 1..Len(table) : table[i].serial_number = sn}

\* C1: a createAsset whose assetId or serialNumber is empty or missing fails
\* with a validation error and leaves the asset table as it was.
C1_CreateAssetRequiresIdAndSerial ==
    [][(/\ resp'.op \in CreateAssetOps
        /\ (~Truthy(resp'.args.assets_id) \/ ~Truthy(resp'.args.serial_number)))
       => (/\ resp'.outcome = "ValidationError"
           /\ it_inventory' = it_inventory)]_vars

\* C2: a createAsset with a non-empty assetId and serialNumber of which one is
\* already carried by a current asset fails with the store's uniqueness error
\* and leaves the asset table as it was; the table then still holds exactly
\* one asset with the repeated assetId (or serialNumber).
C2_DuplicateCreateFails ==
    [][(/\ resp'.op \in CreateAssetOps
        /\ Truthy(resp'.args.assets_id)
        /\ Truthy(resp'.args.serial_number)
        /\ \/ WithAssetsId(it_inventory, resp'.args.assets_id) # {}
           \/ WithSerial(it_inventory, resp'.args.serial_number) # {})
       => (/\ resp'.outcome = "IntegrityError"
           /\ it_inventory' = it_inventory
           /\ Cardinality(WithAssetsId(it_inventory', resp'.args.assets_id)) <= 1
           /\ Cardinality(WithSerial(it_inventory', resp'.args.serial_number)) <= 1)]_vars

\* C2 witness: a create was refused for an assetId an asset already carries,
\* with a serialNumber no asset carries.
C2_Witness ==
    /\ resp.op \in CreateAssetOps
    /\ resp.outcome = "IntegrityError"
    /\ Truthy(resp.args.serial_number)
    /\ Cardinality(WithAssetsId(it_inventory, resp.args.assets_id)) = 1
    /\ WithSerial(it_inventory, resp.args.serial_number) = {}

\* C3: no two assets carry the same assetId and no two carry the same
\* serialNumber.
C3_AssetKeysUnique ==
    \A i, j \in 1..Len(it_inventory) :
        i # j => /\ it_inventory[i].assets_id # it_inventory[j].assets_id
                 /\ it_inventory[i].serial_number # it_inventory[j].serial_number

\* C10: a delete of an id that no row of the table has answers NotFound and
\* leaves both tables as they were.
C10_DeleteMissingLeavesStore ==
    [][(/\ resp'.op \in DeleteOps
        /\ resp'.args \notin
              (IF resp'.op = "delete_it_inventory"
               THEN Ids(it_inventory) ELSE Ids(inventory_tracker)))
       => (/\ resp'.outcome = "NotFound"
           /\ resp'.code = 404
           /\ it_inventory' = it_inventory
           /\ inventory_tracker' = inventory_tracker)]_vars

\* C10 witness: a delete answered NotFound while both tables hold rows.
C10_Witness ==
    /\ resp.op \in DeleteOps
    /\ resp.outcome = "NotFound"
    /\ Len(it_inventory) > 0
    /\ Len(inventory_tracker) > 0

CreateRecordOps == {"create_inventory_record", "add_tracker_record"}

\* a required value that is missing or empty
Blank(x) == x \in {NULL, Empty}

\* C11: a successful deleteAsset(id) removes exactly the asset with that id
\* and leaves every other asset and every allocation record as it was; a
\* successful deleteAllocationRecord(id) removes exactly the allocation record
\* with that id and leaves the asset table as it was.
C11_DeleteRemovesOneRow ==
    [][(resp'.op \in DeleteOps /\ resp'.outcome = "ok")
       => IF resp'.op = "delete_it_inventory"
          THEN /\ resp'.args \in Ids(it_inventory)
               /\ it_inventory' =
                     SelectSeq(it_inventory, LAMBDA r : r.id # resp'.args)
               /\ Len(it_inventory') = Len(it_inventory) - 1
               /\ inventory_tracker' = inventory_tracker
          ELSE /\ resp'.args \in Ids(inventory_tracker)
               /\ inventory_tracker' =
                     SelectSeq(inventory_tracker, LAMBDA r : r.id # resp'.args)
               /\ Len(inventory_tracker') = Len(inventory_tracker) - 1
               /\ it_inventory' = it_inventory]_vars

\* C11 witness: asset A1 was deleted, asset B2 is still stored and so is an
\* allocation record of A1.
C11_Witness ==
    /\ resp.op = "delete_it_inventory"
    /\ resp.outcome = "ok"
    /\ Len(it_inventory) = 1
    /\ it_inventory[1].assets_id = B2
    /\ WithAssetsId(inventory_tracker, A1) # {}

\* C12: a createAllocationRecord whose employeeName or assetId is empty or
\* missing fails with a validation error and leaves the allocation table as
\* it was.
C12_CreateRecordRequiresNameAndAsset ==
    [][(/\ resp'.op \in CreateRecordOps
        /\ (Blank(resp'.args.employee_name) \/ Blank(resp'.args.assets_id)))
       => (/\ resp'.outcome = "ValidationError"
           /\ inventory_tracker' = inventory_tracker)]_vars

\* C12 witness: a record with an employee name and the assetId "" was
\* refused while the table holds a record.
C12_Witness ==
    /\ resp.op = "create_inventory_record"
    /\ resp.outcome = "ValidationError"
    /\ resp.args.employee_name = Emp
    /\ resp.args.assets_id = Empty
    /\ Len(inventory_tracker) > 0

\* C13: a createAllocationRecord with a non-empty employeeName and assetId
\* succeeds whatever records and assets exist; it appends one record that
\* carries the input and leaves every earlier record, and the asset table,
\* as it was.
C13_CreateRecordAppends ==
    [][(/\ resp'.op \in CreateRecordOps
        /\ ~Blank(resp'.args.employee_name)
        /\ ~Blank(resp'.args.assets_id))
       => (/\ resp'.outcome = "ok"
           /\ Len(inventory_tracker') = Len(inventory_tracker) + 1
           /\ SubSeq(inventory_tracker', 1, Len(inventory_tracker))
                 = inventory_tracker
           /\ \A f \in TrackerColumns :
                 inventory_tracker'[Len(inventory_tracker')][f] = resp'.args[f]
           /\ it_inventory' = it_inventory)]_vars

\* C13 witness: a second record for assetId A1 was created while no asset
\* A1 exists; both records are stored and they differ.
C13_Witness ==
    /\ resp.op \in CreateRecordOps
    /\ resp.outcome = "ok"
    /\ Len(inventory_tracker) = 2
    /\ inventory_tracker[1].assets_id = A1
    /\ inventory_tracker[2].assets_id = A1
    /\ inventory_tracker[1].status # inventory_tracker[2].status
    /\ WithAssetsId(it_inventory, A1) = {}

(***************************************************************************)
(* Properties of concurrent creates.                                       *)
(***************************************************************************)
\* C4: of two create requests for the same assetId whose steps interleave in
\* any order, exactly one commits (201) and the other fails with the store's
\* uniqueness error; never both succeed, never both fail.
C4_ConcurrentCreateOneWins ==
    \A c, d \in Clients :
        (/\ c # d
         /\ session[c].pc = "done" /\ session[d].pc = "done"
         /\ Truthy(session[c].item.assets_id)
         /\ session[c].item.assets_id = session[d].item.assets_id)
        => /\ {session[c].code, session[d].code} = {201, 500}
           /\ Cardinality(WithAssetsId(it_inventory, session[c].item.assets_id)) = 1

\* C4 witness: both requests for one assetId were past db.add() at the same
\* time, and both have been answered.
C4_Witness ==
    \E c, d \in Clients :
        /\ c # d
        /\ session[c].pc = "done" /\ session[d].pc = "done"
        /\ session[d].overlap
        /\ Truthy(session[c].item.assets_id)
        /\ session[c].item.assets_id = session[d].item.assets_id
        /\ session[c].item.serial_number # session[d].item.serial_number

(***************************************************************************)
(* Properties of the search term.                                          *)
(***************************************************************************)
\* t occurs in v as a literal substring
IsSubstring(t, v) ==
    \E i \in 0..(Len(v) - Len(t)) : SubSeq(v, i + 1, i + Len(t)) = t

\* the positions of the term that are not the metacharacter %
Literal(q) == {k \in 1..Len(q) : q[k] # "%"}

\* t occurs in v when read as a pattern: every character of t other than %
\* is placed on a character of v, from left to right; neighbours in t are
\* neighbours in v, characters separated by % keep their order; _ may lie
\* on any character, any other character lies on itself or, for an ASCII
\* letter, on its other case.
OccursAsPattern(t, v) ==
    \E f \in [Literal(t) -> 1..Len(v)] :
        /\ \A k \in Literal(t) :
              t[k] = "_" \/ ToLower(t[k]) = ToLower(v[f[k]])
        /\ \A k, m \in Literal(t) :
              /\ (m = k + 1) => f[m] = f[k] + 1
              /\ (k < m) => f[k] < f[m]

\* C5 as stated: for a non-empty term the column matches iff the term occurs
\* in it as a literal, case-sensitive substring.
C5_LiteralCaseSensitive ==
    (probe.pc = "done" /\ probe.v # NULL)
        => (probe.match <=> IsSubstring(probe.q, probe.v))

\* C5 as amended: for a non-empty term the column matches iff it is set and
\* the term occurs in it read as a LIKE pattern: _ stands for any one
\* character, % for any run of characters, every other character for itself,
\* ASCII letters compared without regard to case.
C5_LikePattern ==
    probe.pc = "done"
        => (probe.match <=> (probe.v # NULL /\ OccursAsPattern(probe.q, probe.v)))

\* C5 witness: a term without metacharacters matched a text that differs
\* from it in letter case only.
C5_Witness ==
    /\ probe.pc = "done"
    /\ probe.match
    /\ probe.q = <<"a", "b">>
    /\ probe.v = <<"A", "b">>

(***************************************************************************)
(* Properties of the query layer.  resp.args is <<term, statusFilter>>.    *)
(***************************************************************************)
AssetQueryOps == {"list_it_inventory", "display_it_inventory"}
TrackerQueryOps == {"list_inventory_tracker", "display_inventory_tracker"}
QueryOps == AssetQueryOps \cup TrackerQueryOps
ApiQueryOps == {"list_it_inventory", "list_inventory_tracker"}

\* the table an operation reads
TableOf(op) == IF op \in AssetQueryOps THEN it_inventory ELSE inventory_tracker

\* the searchable fields as the claim lists them
SearchableOf(op) ==
    IF op \in AssetQueryOps
    THEN {"assets_id", "system_type", "location", "brand", "model",
          "serial_number", "status"}
    ELSE {"employee_name", "assets_id", "system_type", "location", "brand",
          "model", "serial_number", "status"}

\* what the operation op answers for a term and a status filter
Answer(op, term, filter) ==
    CASE op = "list_it_inventory" -> ITInventoryQuery(it_inventory, term, filter)
      [] op = "list_inventory_tracker" ->
            TrackerQuery(inventory_tracker, term, filter)
      [] op = "display_it_inventory" -> ITDisplayQuery(it_inventory, term, filter)
      [] op = "display_inventory_tracker" ->
            TrackerDisplayQuery(inventory_tracker, term, filter)

\* the elements of a sequence
Range(seq) == {seq[i] : i \in 1..Len(seq)}

\* C6: list with a non-empty term and statusFilter "All" returns exactly the
\* records of which at least one searchable field matches the term; the
\* searchable fields are assetId, systemType, location, brand, model,
\* serialNumber and status, plus employeeName for allocation records.
C6_TermSelectsSearchableFields ==
    (resp.op \in QueryOps /\ Truthy(resp.args[1]) /\ resp.args[2] = All)
        => resp.body =
              SelectSeq(TableOf(resp.op),
                  LAMBDA r : \E f \in SearchableOf(resp.op) :
                                 ColumnLike(r[f], resp.args[1]))

\* C6 witness: of two assets that carry the term, one in the searchable brand
\* and one in remarks only, the list returned the first alone.
C6_Witness ==
    /\ resp.op = "list_it_inventory"
    /\ resp.args = <<z9, All>>
    /\ Len(it_inventory) = 2
    /\ it_inventory[1].brand = Z9
    /\ it_inventory[2].remarks = Z9
    /\ resp.body = <<it_inventory[1]>>

\* C7 as stated: for every statusFilter other than the exact string "All",
\* list with an empty term returns exactly the records whose status equals
\* statusFilter.
C7_EveryOtherFilterIsExact ==
    (/\ resp.op \in QueryOps
     /\ ~Truthy(resp.args[1])
     /\ resp.args[2] \notin {All, NULL})
        => resp.body =
              SelectSeq(TableOf(resp.op), LAMBDA r : r.status = resp.args[2])

\* C7 as amended: with an empty term, the display tables for every
\* statusFilter other than "All", and the HTTP list endpoints for every
\* non-empty statusFilter other than "all" in any letter case, return exactly
\* the records whose status equals statusFilter, case-sensitively; the HTTP
\* list endpoints return every record for an empty statusFilter and for
\* "all" in any letter case.
C7_StatusFilter ==
    (resp.op \in QueryOps /\ ~Truthy(resp.args[1]) /\ resp.args[2] # NULL)
        => IF resp.op \in ApiQueryOps
              /\ (resp.args[2] = Empty \/ Lower(resp.args[2]) = all)
           THEN resp.body = TableOf(resp.op)
           ELSE resp.args[2] # All
                   => resp.body =
                         SelectSeq(TableOf(resp.op),
                                   LAMBDA r : r.status = resp.args[2])

\* C7 witness: the status filter "Allocated" returned one of two assets.
C7_Witness ==
    /\ resp.op = "list_it_inventory"
    /\ resp.args = <<Empty, Allocated>>
    /\ Len(it_inventory) = 2
    /\ it_inventory[1].status = Available
    /\ resp.body = <<it_inventory[2]>>

\* C8: with the term empty or absent and statusFilter "All" or absent, list
\* returns every record of the table.
C8_NoFilterReturnsAll ==
    (resp.op \in QueryOps /\ ~Truthy(resp.args[1]) /\ resp.args[2] \in {All, NULL})
        => resp.body = TableOf(resp.op)

\* C8 witness: the list with term "" and filter "All" returned both stored
\* assets, one of them with no optional field set.
C8_Witness ==
    /\ resp.op = "list_it_inventory"
    /\ resp.args = <<Empty, All>>
    /\ Len(resp.body) = 2
    /\ resp.body[1].status = NULL
    /\ resp.body[1].brand = NULL

\* C9: with a non-empty term and a statusFilter other than "All", list
\* returns, without error, exactly the records that it returns both for the
\* term alone and for the status filter alone.
C9_TermAndStatusIntersect ==
    (/\ resp.op \in QueryOps
     /\ Truthy(resp.args[1])
     /\ resp.args[2] \notin {All, NULL})
        => /\ resp.outcome = "ok"
           /\ resp.body =
                 SelectSeq(TableOf(resp.op),
                     LAMBDA r : /\ r \in Range(Answer(resp.op, resp.args[1], All))
                                /\ r \in Range(Answer(resp.op, Empty, resp.args[2])))

\* C9 witness: two assets carry the term, one of them is Allocated, and the
\* list for the term and "Allocated" returned that one.
C9_Witness ==
    /\ resp.op = "list_it_inventory"
    /\ resp.args = <<z9, Allocated>>
    /\ Len(Answer(resp.op, z9, All)) = 2
    /\ Len(Answer(resp.op, Empty, Allocated)) = 1
    /\ Len(resp.body) = 1


(***************************************************************************)
(* Properties of stored records.                                           *)
(***************************************************************************)
UnfilteredAssetList ==
    \/ resp'.op = "list_it_inventory" /\ resp'.args = <<NULL, NULL>>
    \/ resp'.op = "display_it_inventory" /\ resp'.args = <<Empty, All>>

\* C14: a createAsset with a non-empty assetId and serialNumber that no
\* current asset has succeeds and stores a record whose fields are the input,
\* the fields the input left out being unset; an asset stays stored until a
\* delete of its id succeeds, and a list with no filter returns every stored
\* asset.
C14_CreatedAssetIsListed ==
    [][/\ (/\ resp'.op \in CreateAssetOps
           /\ ~Blank(resp'.args.assets_id)
           /\ ~Blank(resp'.args.serial_number)
           /\ WithAssetsId(it_inventory, resp'.args.assets_id) = {}
           /\ WithSerial(it_inventory, resp'.args.serial_number) = {})
          => (/\ resp'.outcome = "ok"
              /\ Len(it_inventory') = Len(it_inventory) + 1
              /\ \A f \in ITColumns :
                    it_inventory'[Len(it_inventory')][f] = resp'.args[f]
              /\ resp'.op = "create_it_inventory"
                    => resp'.body = it_inventory'[Len(it_inventory')])
       /\ \A i \in 1..Len(it_inventory) :
             \/ it_inventory[i] \in Range(it_inventory')
             \/ /\ resp'.op = "delete_it_inventory"
                /\ resp'.outcome = "ok"
                /\ resp'.args = it_inventory[i].id
       /\ UnfilteredAssetList
          => (/\ Range(resp'.body) = Range(it_inventory)
              /\ Len(resp'.body) = Len(it_inventory))]_vars

\* C14 witness: an unfiltered list returns the asset created with status
\* Available and remarks Z9, its brand unset, next to an asset created
\* without a status, whose status is unset.
C14_Witness ==
    /\ resp.op = "list_it_inventory"
    /\ resp.args = <<NULL, NULL>>
    /\ Len(resp.body) = 2
    /\ \E i, j \in 1..2 :
          /\ resp.body[i].assets_id = B2
          /\ resp.body[i].status = Available
          /\ resp.body[i].remarks = Z9
          /\ resp.body[i].brand = NULL
          /\ resp.body[j].assets_id = A1
          /\ resp.body[j].status = NULL


\* the place of the row with primary key n in a table
Pos(table, n) == CHOOSE k \in 1..Len(table) : table[k].id = n

\* the rows of `after` that `before` holds stand in the order they have in
\* `before`, and a row `before` does not hold stands last
KeepsOrder(before, after) ==
    \A i, j \in 1..Len(after) :
        i < j =>
           /\ after[i].id \in Ids(before)
           /\ after[j].id \in Ids(before)
                 => Pos(before, after[i].id) < Pos(before, after[j].id)

\* C15: list, with or without filters, returns the selected records in the
\* order of their insertion.  The tables keep their rows in that order (a
\* create adds the new row behind all others, a delete leaves the order of
\* the rest), and the result of every list has its rows in the order of the
\* table.
C15_ListInInsertionOrder ==
    [][/\ KeepsOrder(it_inventory, it_inventory')
       /\ KeepsOrder(inventory_tracker, inventory_tracker')
       /\ resp'.op \in QueryOps
          => (/\ Range(resp'.body) \subseteq Range(TableOf(resp'.op))
              /\ \A i, j \in 1..Len(resp'.body) :
                    i < j => Pos(TableOf(resp'.op), resp'.body[i].id)
                                < Pos(TableOf(resp'.op), resp'.body[j].id))]_vars

\* C15 witness: a list with a search term returns two assets, the one
\* created second behind the one created first.
C15_Witness ==
    /\ resp.op \in AssetQueryOps
    /\ resp.args[1] = SerialTerm
    /\ Len(resp.body) = 2
    /\ resp.body = it_inventory
    /\ resp.body[1].assets_id = B2
    /\ resp.body[2].assets_id = A1


(***************************************************************************)
(* Properties of the aggregation.                                          *)
(***************************************************************************)
RECURSIVE SumOver(_, _)
\* the sum of the counts f gives the values in S
SumOver(f, S) ==
    IF S = {} THEN 0
    ELSE LET v == CHOOSE x \in S : TRUE IN f[v] + SumOver(f, S \ {v})

\* data is the grouped count of it_inventory by column
IsGroupCount(data, column) ==
    /\ DOMAIN data = {r[column] : r \in Range(it_inventory)}
    /\ \A v \in DOMAIN data :
          data[v] = Len(SelectSeq(it_inventory, LAMBDA r : r[column] = v))
    /\ SumOver(data, DOMAIN data) = Len(it_inventory)
    /\ it_inventory = <<>> => DOMAIN data = {}

\* C16: the grouped count by status or by location has one entry for each
\* value stored in the table, the unset value included; the count of an
\* entry is the number of rows with that value, the counts sum to the row
\* count, the mapping of an empty table is empty, and computing it changes
\* no table.
C16_GroupCount ==
    [][/\ resp'.op = "build_dashboard_section"
          => (/\ IsGroupCount(resp'.body.status_data, "status")
              /\ IsGroupCount(resp'.body.location_data, "location")
              /\ UNCHANGED <<it_inventory, inventory_tracker>>)
       /\ (resp'.op = "generate_report" /\ resp'.args = "Asset Summary Report")
          => (/\ IsGroupCount(resp'.body.status_data, "status")
              /\ UNCHANGED <<it_inventory, inventory_tracker>>)]_vars

\* C16 witness: the dashboard of two assets, one Available and one without
\* a status, both in Indore, counts one asset for each status and two for
\* the location.
C16_Witness ==
    /\ resp.op = "build_dashboard_section"
    /\ DOMAIN resp.body.status_data = {Empty, Available}
    /\ resp.body.status_data[Empty] = 1
    /\ resp.body.status_data[Available] = 1
    /\ DOMAIN resp.body.location_data = {Indore}
    /\ resp.body.location_data[Indore] = 2


(***************************************************************************)
(* Properties of the HTTP boundary and of record identity.                 *)
(***************************************************************************)
\* C17: POST /api/it_inventory answers 201 with the created asset on
\* success, 400 on a validation failure and 409 on a uniqueness conflict;
\* DELETE /api/it_inventory/{id} answers 204 on success and 404 when the id
\* does not exist.
C17_AssetStatusCodes ==
    /\ resp.op = "create_it_inventory"
       => /\ resp.outcome = "ok"
             => (/\ resp.code = 201
                 /\ resp.body \in Range(it_inventory)
                 /\ resp.body.assets_id = resp.args.assets_id)
          /\ resp.outcome = "ValidationError" => resp.code = 400
          /\ resp.outcome = "IntegrityError" => resp.code = 409
    /\ resp.op = "delete_it_inventory"
       => /\ resp.outcome = "ok" => resp.code = 204
          /\ resp.outcome = "NotFound" => resp.code = 404

\* a row of `before` is still in `after`, field for field, unless the step
\* is a successful delete of its id by the operation `delete`
RowsKept(before, after, delete) ==
    \A i \in 1..Len(before) :
        /\ \A j \in 1..Len(after) :
              after[j].id = before[i].id => after[j] = before[i]
        /\ \/ before[i] \in Range(after)
           \/ /\ resp'.op = delete
              /\ resp'.outcome = "ok"
              /\ resp'.args = before[i].id

\* C18: no operation updates a record.  In every step, whatever operation
\* it is, a stored record keeps its id and all its fields, or it is the
\* record the step deletes; so an allocation record keeps the asset
\* attributes it was created with when an asset of the same assetId is
\* created or deleted.
C18_NoUpdate ==
    [][/\ RowsKept(it_inventory, it_inventory', "delete_it_inventory")
       /\ RowsKept(inventory_tracker, inventory_tracker',
                   "delete_inventory_record")]_vars

\* C18 witness: asset A1 was created while allocation records of A1 are
\* stored; a record still carries serial number S1, which is not the
\* serial number of the asset.
C18_Witness ==
    /\ resp.op = "create_it_inventory"
    /\ resp.outcome = "ok"
    /\ resp.args.assets_id = A1
    /\ resp.body.serial_number # S1
    /\ \E i \in 1..Len(inventory_tracker) :
          /\ inventory_tracker[i].assets_id = A1
          /\ inventory_tracker[i].serial_number = S1
          /\ inventory_tracker[i].status = Allocated

\* C19: the id a successful create assigns was never the id of a record of
\* that table before.  Checked for the record deleted by the request just
\* before: the create that follows a successful delete of id n does not
\* assign n.
C19_IdNeverReused ==
    [][/\ (/\ resp.op = "delete_it_inventory"
           /\ resp.outcome = "ok"
           /\ resp'.op = "create_it_inventory"
           /\ resp'.outcome = "ok")
          => resp'.body.id # resp.args
       /\ (/\ resp.op = "delete_inventory_record"
           /\ resp.outcome = "ok"
           /\ resp'.op = "create_inventory_record"
           /\ resp'.outcome = "ok")
          => resp'.body.id # resp.args]_vars

=============================================================================
